---- MODULE Spec2Model ----
(***************************************************************************)
(* Model of ax/benchmark/metrics/benchmark.py (the BenchmarkMetric family) *)
(* and of the registry manifest ax/storage/json_store/registry.py.         *)
(*                                                                         *)
(* Objects live in `heap`, a sequence indexed by object identity; an       *)
(* identity is never reused because the heap keeps every object alive.     *)
(* `last` records the most recent call (its receiver, its outcome and the  *)
(* Fetch Bridge calls it made); `gt_calls` is the run of consecutive        *)
(* make_ground_truth_metric() calls that ends at the most recent call, as  *)
(* in the evaluation of a chained expression.  The four registries are     *)
(* module-level dictionaries, populated once and never written again.      *)
(***************************************************************************)
EXTENDS FiniteSets, Integers, Sequences, TLC

VARIABLES heap, last, gt_calls,
          encoder_registry, class_encoder_registry,
          decoder_registry, class_decoder_registry

vars == <<heap, last, gt_calls, encoder_registry, class_encoder_registry,
          decoder_registry, class_decoder_registry>>

\* the four module-level dictionaries of registry.py
registries == <<encoder_registry, class_encoder_registry,
                decoder_registry, class_decoder_registry>>

-----------------------------------------------------------------------------
(* Bounds of the model.                                                    *)

\* number of metric objects a behaviour may allocate
MaxObjects == 3

\* number of BenchmarkMetric objects callers construct directly
MaxObserved == 1

\* number of make_ground_truth_metric() calls remembered in gt_calls
HistoryLen == 2

-----------------------------------------------------------------------------
(* Values.                                                                 *)

\* Optional[int]: None is the empty tuple, an int i is <<i>>
None == <<>>

Some(i) == <<i>>

\* a class, identified by the module it is imported from and its __name__
T(module, name) == [mod |-> module, name |-> name]

\* cls.__name__
ClassName(cls) == cls.name

Names == {"m"}

\* outcome_index values a caller passes
OutcomeIndices == {None, Some(0)}

Trials == {"trial_0"}

\* keyword-argument sets a caller passes to fetch_trial_data
KwargSets == {{}, {"extra_kw"}}

\* MetricFetchResult values the Fetch Bridge may return
FetchResults == {"Ok", "Err"}

Metric == T("ax.core.metric", "Metric")

BenchmarkMetricBase == T("ax.benchmark.metrics.base", "BenchmarkMetricBase")

GroundTruthMetricMixin == T("ax.benchmark.metrics.base", "GroundTruthMetricMixin")

BenchmarkMetric == T("ax.benchmark.metrics.benchmark", "BenchmarkMetric")

GroundTruthBenchmarkMetric == T("ax.benchmark.metrics.benchmark", "GroundTruthBenchmarkMetric")

-----------------------------------------------------------------------------
(* benchmark.py                                                            *)

\* BenchmarkMetric.__init__: the attributes of a freshly built instance
BenchmarkMetric_init(cls, name, lower_is_better, observe_noise_sd, outcome_index) ==
    [cls |-> cls,
     name |-> name,
     lower_is_better |-> lower_is_better,
     observe_noise_sd |-> observe_noise_sd,
     outcome_index |-> outcome_index,
     original_metric |-> 0]

\* GroundTruthMetricMixin.get_ground_truth_name
get_ground_truth_name(original) == original.name \o "__GROUND_TRUTH"

\* variant: the wrapper keeps the observe_noise_sd of the metric it wraps
GroundTruthBenchmarkMetric_init_KeepsNoiseSd(h, original_metric) ==
    [BenchmarkMetric_init(GroundTruthBenchmarkMetric,
                          get_ground_truth_name(h[original_metric]),
                          h[original_metric].lower_is_better,
                          h[original_metric].observe_noise_sd,
                          h[original_metric].outcome_index)
       EXCEPT !.original_metric = original_metric]

\* variant: the wrapper is built without the outcome_index of the metric it wraps
GroundTruthBenchmarkMetric_init_DropsOutcomeIndex(h, original_metric) ==
    [BenchmarkMetric_init(GroundTruthBenchmarkMetric,
                          get_ground_truth_name(h[original_metric]),
                          h[original_metric].lower_is_better,
                          FALSE,
                          None)
       EXCEPT !.original_metric = original_metric]

\* GroundTruthBenchmarkMetric.__init__(original_metric)
GroundTruthBenchmarkMetric_init(h, original_metric) ==
    [BenchmarkMetric_init(GroundTruthBenchmarkMetric,
                          get_ground_truth_name(h[original_metric]),
                          h[original_metric].lower_is_better,
                          FALSE,
                          h[original_metric].outcome_index)
       EXCEPT !.original_metric = original_metric]

\* _fetch_trial_data(trial=..., metric_name=..., ...): one Fetch Bridge call,
\* recorded with its arguments and the result the bridge produced
fetch_call(trial, metric_name, outcome_index, include_noise_sd, ground_truth, result) ==
    [trial |-> trial,
     metric_name |-> metric_name,
     outcome_index |-> outcome_index,
     include_noise_sd |-> include_noise_sd,
     ground_truth |-> ground_truth,
     result |-> result]

\* variant: extra keyword arguments are silently ignored
BenchmarkMetric_fetch_trial_data_IgnoresKwargs(h, self, trial, kwargs, result) ==
    [raised |-> "",
     bridge |-> <<fetch_call(trial, h[self].name, h[self].outcome_index,
                             h[self].observe_noise_sd, FALSE, result)>>,
     ret |-> result]

\* BenchmarkMetric.fetch_trial_data(self, trial, **kwargs)
BenchmarkMetric_fetch_trial_data(h, self, trial, kwargs, result) ==
    IF Cardinality(kwargs) > 0
    THEN [raised |-> "NotImplementedError", bridge |-> <<>>, ret |-> ""]
    ELSE [raised |-> "",
          bridge |-> <<fetch_call(trial, h[self].name, h[self].outcome_index,
                                  h[self].observe_noise_sd, FALSE, result)>>,
          ret |-> result]

\* variant: the override asks the bridge for the observed data variant
GroundTruthBenchmarkMetric_fetch_trial_data_Observed(h, self, trial, kwargs, result) ==
    IF Cardinality(kwargs) > 0
    THEN [raised |-> "NotImplementedError", bridge |-> <<>>, ret |-> ""]
    ELSE [raised |-> "",
          bridge |-> <<fetch_call(trial, h[self].name, h[self].outcome_index,
                                  FALSE, FALSE, result)>>,
          ret |-> result]

\* GroundTruthBenchmarkMetric.fetch_trial_data(self, trial, **kwargs)
GroundTruthBenchmarkMetric_fetch_trial_data(h, self, trial, kwargs, result) ==
    IF Cardinality(kwargs) > 0
    THEN [raised |-> "NotImplementedError", bridge |-> <<>>, ret |-> ""]
    ELSE [raised |-> "",
          bridge |-> <<fetch_call(trial, h[self].name, h[self].outcome_index,
                                  FALSE, TRUE, result)>>,
          ret |-> result]

\* variant: the wrapper of a metric is built once and handed out again
BenchmarkMetric_make_ground_truth_metric_Memoized(h, self) ==
    LET made == {g \in DOMAIN h : h[g].cls = GroundTruthBenchmarkMetric
                                   /\ h[g].original_metric = self} IN
    IF made # {}
    THEN [heap |-> h, ret |-> CHOOSE g \in made : \A g2 \in made : g <= g2]
    ELSE [heap |-> Append(h, GroundTruthBenchmarkMetric_init(h, self)),
          ret |-> Len(h) + 1]

\* BenchmarkMetric.make_ground_truth_metric(self)
BenchmarkMetric_make_ground_truth_metric(h, self) ==
    [heap |-> Append(h, GroundTruthBenchmarkMetric_init(h, self)),
     ret |-> Len(h) + 1]

\* variant: the override is missing, so a ground-truth metric is wrapped again
GroundTruthBenchmarkMetric_make_ground_truth_metric_Inherited(h, self) ==
    [heap |-> Append(h, GroundTruthBenchmarkMetric_init(h, self)),
     ret |-> Len(h) + 1]

\* GroundTruthBenchmarkMetric.make_ground_truth_metric(self)
GroundTruthBenchmarkMetric_make_ground_truth_metric(h, self) ==
    [heap |-> h, ret |-> self]

\* method resolution: the override of the receiver's class is the one called
fetch_trial_data(h, self, trial, kwargs, result) ==
    IF h[self].cls = GroundTruthBenchmarkMetric
    THEN GroundTruthBenchmarkMetric_fetch_trial_data(h, self, trial, kwargs, result)
    ELSE BenchmarkMetric_fetch_trial_data(h, self, trial, kwargs, result)

make_ground_truth_metric(h, self) ==
    IF h[self].cls = GroundTruthBenchmarkMetric
    THEN GroundTruthBenchmarkMetric_make_ground_truth_metric(h, self)
    ELSE BenchmarkMetric_make_ground_truth_metric(h, self)

\* the last HistoryLen entries of s
Recent(s) == IF Len(s) > HistoryLen THEN SubSeq(s, Len(s) - HistoryLen + 1, Len(s)) ELSE s

-----------------------------------------------------------------------------
(* registry.py: the manifest, each dictionary in its declared order.        *)

CORE_ENCODER_REGISTRY ==
    << <<T("ax.core.arm", "Arm"), "arm_to_dict">>,
       <<T("ax.early_stopping.strategies.logical", "AndEarlyStoppingStrategy"), "logical_early_stopping_strategy_to_dict">>,
       <<T("ax.metrics.branin", "AugmentedBraninMetric"), "metric_to_dict">>,
       <<T("ax.metrics.hartmann6", "AugmentedHartmann6Metric"), "metric_to_dict">>,
       <<T("ax.core.batch_trial", "BatchTrial"), "batch_to_dict">>,
       <<T("ax.models.torch.botorch_modular.model", "BoTorchModel"), "botorch_model_to_dict">>,
       <<T("ax.metrics.botorch_test_problem", "BotorchTestProblemMetric"), "metric_to_dict">>,
       <<T("ax.runners.botorch_test_problem", "BotorchTestProblemRunner"), "runner_to_dict">>,
       <<T("ax.metrics.branin", "BraninMetric"), "metric_to_dict">>,
       <<T("ax.metrics.branin_map", "BraninTimestampMapMetric"), "metric_to_dict">>,
       <<T("ax.core.parameter", "ChoiceParameter"), "choice_parameter_to_dict">>,
       <<T("ax.core.data", "Data"), "data_to_dict">>,
       <<T("ax.core.experiment", "Experiment"), "experiment_to_dict">>,
       <<T("ax.metrics.factorial", "FactorialMetric"), "metric_to_dict">>,
       <<T("ax.core.parameter", "FixedParameter"), "fixed_parameter_to_dict">>,
       <<T("gpytorch.priors.torch_priors", "GammaPrior"), "botorch_component_to_dict">>,
       <<T("ax.modelbridge.generation_strategy", "GenerationStep"), "generation_step_to_dict">>,
       <<T("ax.modelbridge.generation_strategy", "GenerationStrategy"), "generation_strategy_to_dict">>,
       <<T("ax.core.generator_run", "GeneratorRun"), "generator_run_to_dict">>,
       <<T("ax.metrics.hartmann6", "Hartmann6Metric"), "metric_to_dict">>,
       <<T("gpytorch.constraints", "Interval"), "botorch_component_to_dict">>,
       <<T("ax.models.torch.botorch_modular.list_surrogate", "ListSurrogate"), "surrogate_to_dict">>,
       <<T("ax.metrics.l2norm", "L2NormMetric"), "metric_to_dict">>,
       <<T("ax.core.map_data", "MapData"), "map_data_to_dict">>,
       <<T("ax.core.map_data", "MapKeyInfo"), "map_key_info_to_dict">>,
       <<T("ax.core.map_metric", "MapMetric"), "metric_to_dict">>,
       <<T("ax.core.metric", "Metric"), "metric_to_dict">>,
       <<T("ax.core.objective", "MultiObjective"), "multi_objective_to_dict">>,
       <<T("ax.core.optimization_config", "MultiObjectiveOptimizationConfig"), "multi_objective_optimization_config_to_dict">>,
       <<T("ax.core.multi_type_experiment", "MultiTypeExperiment"), "multi_type_experiment_to_dict">>,
       <<T("ax.early_stopping.strategies", "PercentileEarlyStoppingStrategy"), "percentile_early_stopping_strategy_to_dict">>,
       <<T("ax.metrics.sklearn", "SklearnMetric"), "metric_to_dict">>,
       <<T("ax.metrics.chemistry", "ChemistryMetric"), "metric_to_dict">>,
       <<T("ax.metrics.branin", "NegativeBraninMetric"), "metric_to_dict">>,
       <<T("ax.metrics.noisy_function", "NoisyFunctionMetric"), "metric_to_dict">>,
       <<T("ax.core.objective", "Objective"), "objective_to_dict">>,
       <<T("ax.core.outcome_constraint", "ObjectiveThreshold"), "outcome_constraint_to_dict">>,
       <<T("ax.core.optimization_config", "OptimizationConfig"), "optimization_config_to_dict">>,
       <<T("ax.early_stopping.strategies.logical", "OrEarlyStoppingStrategy"), "logical_early_stopping_strategy_to_dict">>,
       <<T("ax.core.parameter_constraint", "OrderConstraint"), "order_parameter_constraint_to_dict">>,
       <<T("ax.core.outcome_constraint", "OutcomeConstraint"), "outcome_constraint_to_dict">>,
       <<T("ax.core.parameter_constraint", "ParameterConstraint"), "parameter_constraint_to_dict">>,
       <<T("ax.core.parameter", "RangeParameter"), "range_parameter_to_dict">>,
       <<T("ax.core.objective", "ScalarizedObjective"), "scalarized_objective_to_dict">>,
       <<T("ax.core.search_space", "SearchSpace"), "search_space_to_dict">>,
       <<T("ax.core.search_space", "HierarchicalSearchSpace"), "search_space_to_dict">>,
       <<T("ax.benchmark.benchmark_problem", "SimpleBenchmarkProblem"), "benchmark_problem_to_dict">>,
       <<T("ax.core.parameter_constraint", "SumConstraint"), "sum_parameter_constraint_to_dict">>,
       <<T("ax.models.torch.botorch_modular.surrogate", "Surrogate"), "surrogate_to_dict">>,
       <<T("ax.runners.synthetic", "SyntheticRunner"), "runner_to_dict">>,
       <<T("ax.early_stopping.strategies", "ThresholdEarlyStoppingStrategy"), "threshold_early_stopping_strategy_to_dict">>,
       <<T("ax.core.trial", "Trial"), "trial_to_dict">>,
       <<T("ax.core", "ObservationFeatures"), "observation_features_to_dict">>,
       <<T("ax.modelbridge.transforms.winsorize", "WinsorizationConfig"), "winsorization_config_to_dict">> >>

\* variant: Interval, which has an exact entry, is also given an ancestor entry
CORE_CLASS_ENCODER_REGISTRY_WithInterval ==
    << <<T("ax.models.torch.botorch_modular.acquisition", "Acquisition"), "botorch_modular_to_dict">>,
       <<T("botorch.acquisition.acquisition", "AcquisitionFunction"), "botorch_modular_to_dict">>,
       <<T("gpytorch.likelihoods.likelihood", "Likelihood"), "botorch_modular_to_dict">>,
       <<T("torch.nn", "Module"), "botorch_modular_to_dict">>,
       <<T("gpytorch.mlls.marginal_log_likelihood", "MarginalLogLikelihood"), "botorch_modular_to_dict">>,
       <<T("botorch.models.model", "Model"), "botorch_modular_to_dict">>,
       <<T("gpytorch.constraints", "Interval"), "botorch_modular_to_dict">>,
       <<T("ax.modelbridge.transforms.base", "Transform"), "transform_type_to_dict">> >>

CORE_CLASS_ENCODER_REGISTRY ==
    << <<T("ax.models.torch.botorch_modular.acquisition", "Acquisition"), "botorch_modular_to_dict">>,
       <<T("botorch.acquisition.acquisition", "AcquisitionFunction"), "botorch_modular_to_dict">>,
       <<T("gpytorch.likelihoods.likelihood", "Likelihood"), "botorch_modular_to_dict">>,
       <<T("torch.nn", "Module"), "botorch_modular_to_dict">>,
       <<T("gpytorch.mlls.marginal_log_likelihood", "MarginalLogLikelihood"), "botorch_modular_to_dict">>,
       <<T("botorch.models.model", "Model"), "botorch_modular_to_dict">>,
       <<T("ax.modelbridge.transforms.base", "Transform"), "transform_type_to_dict">> >>

CORE_DECODER_REGISTRY ==
    << <<"AbandonedArm", T("ax.core.batch_trial", "AbandonedArm")>>,
       <<"AndEarlyStoppingStrategy", T("ax.early_stopping.strategies.logical", "AndEarlyStoppingStrategy")>>,
       <<"AugmentedBraninMetric", T("ax.metrics.branin", "AugmentedBraninMetric")>>,
       <<"AugmentedHartmann6Metric", T("ax.metrics.hartmann6", "AugmentedHartmann6Metric")>>,
       <<"Arm", T("ax.core.arm", "Arm")>>,
       <<"BatchTrial", T("ax.core.batch_trial", "BatchTrial")>>,
       <<"AggregatedBenchmarkResult", T("ax.benchmark2.benchmark_result", "AggregatedBenchmarkResult")>>,
       <<"BenchmarkMethod", T("ax.benchmark2.benchmark_method", "BenchmarkMethod")>>,
       <<"BenchmarkProblem", T("ax.benchmark2.benchmark_problem", "BenchmarkProblem")>>,
       <<"BenchmarkResult", T("ax.benchmark2.benchmark_result", "BenchmarkResult")>>,
       <<"BoTorchModel", T("ax.models.torch.botorch_modular.model", "BoTorchModel")>>,
       <<"BotorchTestProblemMetric", T("ax.metrics.botorch_test_problem", "BotorchTestProblemMetric")>>,
       <<"BotorchTestProblemRunner", T("ax.runners.botorch_test_problem", "BotorchTestProblemRunner")>>,
       <<"BraninMetric", T("ax.metrics.branin", "BraninMetric")>>,
       <<"BraninTimestampMapMetric", T("ax.metrics.branin_map", "BraninTimestampMapMetric")>>,
       <<"ChemistryMetric", T("ax.metrics.chemistry", "ChemistryMetric")>>,
       <<"ChemistryProblemType", T("ax.metrics.chemistry", "ChemistryProblemType")>>,
       <<"ChoiceParameter", T("ax.core.parameter", "ChoiceParameter")>>,
       <<"ComparisonOp", T("ax.core.types", "ComparisonOp")>>,
       <<"Data", T("ax.core.data", "Data")>>,
       <<"DataType", T("ax.core.experiment", "DataType")>>,
       <<"DomainType", T("ax.storage.utils", "DomainType")>>,
       <<"Experiment", T("ax.core.experiment", "Experiment")>>,
       <<"FactorialMetric", T("ax.metrics.factorial", "FactorialMetric")>>,
       <<"FixedParameter", T("ax.core.parameter", "FixedParameter")>>,
       <<"GammaPrior", T("gpytorch.priors.torch_priors", "GammaPrior")>>,
       <<"GenerationStrategy", T("ax.modelbridge.generation_strategy", "GenerationStrategy")>>,
       <<"GenerationStep", T("ax.modelbridge.generation_strategy", "GenerationStep")>>,
       <<"GeneratorRun", T("ax.core.generator_run", "GeneratorRun")>>,
       <<"GeneratorRunStruct", T("ax.core.batch_trial", "GeneratorRunStruct")>>,
       <<"Hartmann6Metric", T("ax.metrics.hartmann6", "Hartmann6Metric")>>,
       <<"HierarchicalSearchSpace", T("ax.core.search_space", "HierarchicalSearchSpace")>>,
       <<"Interval", T("gpytorch.constraints", "Interval")>>,
       <<"ListSurrogate", T("ax.models.torch.botorch_modular.list_surrogate", "ListSurrogate")>>,
       <<"L2NormMetric", T("ax.metrics.l2norm", "L2NormMetric")>>,
       <<"MapData", T("ax.core.map_data", "MapData")>>,
       <<"MapMetric", T("ax.core.map_metric", "MapMetric")>>,
       <<"MapKeyInfo", T("ax.core.map_data", "MapKeyInfo")>>,
       <<"Metric", T("ax.core.metric", "Metric")>>,
       <<"Models", T("ax.modelbridge.factory", "Models")>>,
       <<"MultiObjective", T("ax.core.objective", "MultiObjective")>>,
       <<"MultiObjectiveBenchmarkProblem", T("ax.benchmark2.benchmark_problem", "MultiObjectiveBenchmarkProblem")>>,
       <<"MultiObjectiveOptimizationConfig", T("ax.core.optimization_config", "MultiObjectiveOptimizationConfig")>>,
       <<"MultiTypeExperiment", T("ax.core.multi_type_experiment", "MultiTypeExperiment")>>,
       <<"NegativeBraninMetric", T("ax.metrics.branin", "NegativeBraninMetric")>>,
       <<"NoisyFunctionMetric", T("ax.metrics.noisy_function", "NoisyFunctionMetric")>>,
       <<"Objective", T("ax.core.objective", "Objective")>>,
       <<"ObjectiveThreshold", T("ax.core.outcome_constraint", "ObjectiveThreshold")>>,
       <<"OptimizationConfig", T("ax.core.optimization_config", "OptimizationConfig")>>,
       <<"OrEarlyStoppingStrategy", T("ax.early_stopping.strategies.logical", "OrEarlyStoppingStrategy")>>,
       <<"OrderConstraint", T("ax.core.parameter_constraint", "OrderConstraint")>>,
       <<"OutcomeConstraint", T("ax.core.outcome_constraint", "OutcomeConstraint")>>,
       <<"ParameterConstraint", T("ax.core.parameter_constraint", "ParameterConstraint")>>,
       <<"ParameterConstraintType", T("ax.storage.utils", "ParameterConstraintType")>>,
       <<"ParameterType", T("ax.core.parameter", "ParameterType")>>,
       <<"PercentileEarlyStoppingStrategy", T("ax.early_stopping.strategies", "PercentileEarlyStoppingStrategy")>>,
       <<"RangeParameter", T("ax.core.parameter", "RangeParameter")>>,
       <<"ScalarizedObjective", T("ax.core.objective", "ScalarizedObjective")>>,
       <<"SchedulerOptions", T("ax.service.utils.scheduler_options", "SchedulerOptions")>>,
       <<"ScoredBenchmarkResult", T("ax.benchmark2.benchmark_result", "ScoredBenchmarkResult")>>,
       <<"SearchSpace", T("ax.core.search_space", "SearchSpace")>>,
       <<"SimpleBenchmarkProblem", T("ax.benchmark.benchmark_problem", "SimpleBenchmarkProblem")>>,
       <<"SingleObjectiveBenchmarkProblem", T("ax.benchmark2.benchmark_problem", "SingleObjectiveBenchmarkProblem")>>,
       <<"SklearnDataset", T("ax.metrics.sklearn", "SklearnDataset")>>,
       <<"SklearnMetric", T("ax.metrics.sklearn", "SklearnMetric")>>,
       <<"SklearnModelType", T("ax.metrics.sklearn", "SklearnModelType")>>,
       <<"SumConstraint", T("ax.core.parameter_constraint", "SumConstraint")>>,
       <<"Surrogate", T("ax.models.torch.botorch_modular.surrogate", "Surrogate")>>,
       <<"SyntheticRunner", T("ax.runners.synthetic", "SyntheticRunner")>>,
       <<"Trial", T("ax.core.trial", "Trial")>>,
       <<"TrialType", T("ax.service.utils.scheduler_options", "TrialType")>>,
       <<"TrialStatus", T("ax.core.base_trial", "TrialStatus")>>,
       <<"ThresholdEarlyStoppingStrategy", T("ax.early_stopping.strategies", "ThresholdEarlyStoppingStrategy")>>,
       <<"ObservationFeatures", T("ax.core", "ObservationFeatures")>>,
       <<"WinsorizationConfig", T("ax.modelbridge.transforms.winsorize", "WinsorizationConfig")>> >>

\* variant: the class decoder of MarginalLogLikelihood is registered under the
\* bare class name
CORE_CLASS_DECODER_REGISTRY_BareName ==
    << <<"Type[Acquisition]", "class_from_json">>,
       <<"Type[AcquisitionFunction]", "class_from_json">>,
       <<"Type[Likelihood]", "class_from_json">>,
       <<"Type[Module]", "class_from_json">>,
       <<"MarginalLogLikelihood", "class_from_json">>,
       <<"Type[Model]", "class_from_json">>,
       <<"Type[Transform]", "transform_type_from_json">> >>

CORE_CLASS_DECODER_REGISTRY ==
    << <<"Type[Acquisition]", "class_from_json">>,
       <<"Type[AcquisitionFunction]", "class_from_json">>,
       <<"Type[Likelihood]", "class_from_json">>,
       <<"Type[Module]", "class_from_json">>,
       <<"Type[MarginalLogLikelihood]", "class_from_json">>,
       <<"Type[Model]", "class_from_json">>,
       <<"Type[Transform]", "transform_type_from_json">> >>

-----------------------------------------------------------------------------
(* Class hierarchy of the types the manifest and the metrics refer to.     *)

TorchModule == T("torch.nn", "Module")

GPyTorchModule == T("gpytorch.module", "Module")

\* class statements of benchmark.py: <<class, direct base>>
BENCHMARK_BASES ==
    { <<BenchmarkMetric, BenchmarkMetricBase>>,
      <<GroundTruthBenchmarkMetric, BenchmarkMetric>>,
      <<GroundTruthBenchmarkMetric, GroundTruthMetricMixin>> }

\* ax.benchmark.metrics.base: class BenchmarkMetricBase(Metric, ABC)
AX_BASES == { <<BenchmarkMetricBase, Metric>> }

\* direct bases, inside botorch, gpytorch and torch, of the library classes
\* the manifest imports:
\*   botorch  AcquisitionFunction(Module, ABC), Model(Module, ABC)
\*   gpytorch Module(torch.nn.Module), Likelihood -> gpytorch Module,
\*            MarginalLogLikelihood(Module), Interval(Module), Prior(Module, ABC)
LIBRARY_BASES ==
    { <<T("botorch.acquisition.acquisition", "AcquisitionFunction"), TorchModule>>,
      <<T("botorch.models.model", "Model"), TorchModule>>,
      <<GPyTorchModule, TorchModule>>,
      <<T("gpytorch.likelihoods.likelihood", "Likelihood"), GPyTorchModule>>,
      <<T("gpytorch.mlls.marginal_log_likelihood", "MarginalLogLikelihood"), GPyTorchModule>>,
      <<T("gpytorch.constraints", "Interval"), GPyTorchModule>>,
      <<T("gpytorch.priors.torch_priors", "GammaPrior"), GPyTorchModule>> }

\* cls.__bases__
Bases(cls) == {e[2] : e \in {d \in BENCHMARK_BASES \cup AX_BASES \cup LIBRARY_BASES : d[1] = cls}}

RECURSIVE StrictAncestors(_)
\* every proper superclass of cls
StrictAncestors(cls) == Bases(cls) \cup UNION {StrictAncestors(b) : b \in Bases(cls)}

\* the keys of a dictionary given as a sequence of <<key, value>> pairs
Keys(reg) == {reg[i][1] : i \in DOMAIN reg}

\* reg[key], for a key of reg
Lookup(reg, key) == reg[CHOOSE i \in DOMAIN reg : reg[i][1] = key][2]

\* every class the model knows
AllTypes ==
    Keys(CORE_ENCODER_REGISTRY) \cup Keys(CORE_CLASS_ENCODER_REGISTRY)
    \cup {CORE_DECODER_REGISTRY[i][2] : i \in DOMAIN CORE_DECODER_REGISTRY}
    \cup {e[1] : e \in BENCHMARK_BASES \cup AX_BASES \cup LIBRARY_BASES}
    \cup {e[2] : e \in BENCHMARK_BASES \cup AX_BASES \cup LIBRARY_BASES}

\* cls.__mro__ without cls itself, for every class the model knows
MRO == [cls \in AllTypes |-> StrictAncestors(cls)]

\* issubclass(cls, base)
issubclass(cls, base) == cls = base \/ base \in MRO[cls]

-----------------------------------------------------------------------------
(* Encoder and decoder dispatch over the registries.                       *)

\* the discriminant of a class reference
TypeTag(name) == "Type[" \o name \o "]"

\* positions of the ancestor registry whose key is a base of cls
Matches(class_reg, cls) == {i \in DOMAIN class_reg : issubclass(cls, class_reg[i][1])}

\* the ancestor registry is walked in its declared order: the first match
FirstMatch(class_reg, cls) ==
    CHOOSE i \in Matches(class_reg, cls) : \A j \in Matches(class_reg, cls) : i <= j

\* encoding an instance whose type is cls
encode_object(enc_reg, class_reg, cls) ==
    IF \E i \in DOMAIN enc_reg : enc_reg[i][1] = cls
    THEN [raised |-> "", encoder |-> Lookup(enc_reg, cls), key |-> cls,
          tag |-> ClassName(cls)]
    ELSE IF Matches(class_reg, cls) # {}
    THEN [raised |-> "", encoder |-> class_reg[FirstMatch(class_reg, cls)][2],
          key |-> class_reg[FirstMatch(class_reg, cls)][1], tag |-> ClassName(cls)]
    ELSE [raised |-> "UnregisteredTypeError", encoder |-> "", key |-> cls, tag |-> ""]

\* encoding a value that is the class cls itself, not an instance
encode_class(class_reg, cls) ==
    IF Matches(class_reg, cls) # {}
    THEN [raised |-> "", encoder |-> class_reg[FirstMatch(class_reg, cls)][2],
          key |-> class_reg[FirstMatch(class_reg, cls)][1],
          tag |-> TypeTag(ClassName(class_reg[FirstMatch(class_reg, cls)][1]))]
    ELSE [raised |-> "UnregisteredTypeError", encoder |-> "", key |-> cls, tag |-> ""]

\* discriminants of the form "Type[...]"
TypeTags == {TypeTag(ClassName(cls)) : cls \in AllTypes} \cup {"Type[NoSuchType]"}

\* discriminants a document may carry
Discriminants == {ClassName(cls) : cls \in AllTypes} \cup TypeTags \cup {"NoSuchType"}

\* resolving the "__type" discriminant of a document
decode_document(dec_reg, class_dec_reg, type_name) ==
    IF type_name \in TypeTags
    THEN IF type_name \in Keys(class_dec_reg)
         THEN [raised |-> "", target |-> Lookup(class_dec_reg, type_name)]
         ELSE [raised |-> "UnknownTypeNameError", target |-> ""]
    ELSE IF type_name \in Keys(dec_reg)
         THEN [raised |-> "", target |-> ClassName(Lookup(dec_reg, type_name))]
         ELSE [raised |-> "UnknownTypeNameError", target |-> ""]

-----------------------------------------------------------------------------
(* State machine.                                                          *)

Init ==
    /\ heap = <<>>
    /\ last = [op |-> "none"]
    /\ gt_calls = <<>>
    /\ encoder_registry = CORE_ENCODER_REGISTRY
    /\ class_encoder_registry = CORE_CLASS_ENCODER_REGISTRY
    /\ decoder_registry = CORE_DECODER_REGISTRY
    /\ class_decoder_registry = CORE_CLASS_DECODER_REGISTRY

\* a caller builds BenchmarkMetric(name, lower_is_better, observe_noise_sd, outcome_index)
NewBenchmarkMetric(name, lower_is_better, observe_noise_sd, outcome_index) ==
    /\ Len(heap) < MaxObjects
    /\ Cardinality({o \in DOMAIN heap : heap[o].cls = BenchmarkMetric}) < MaxObserved
    /\ heap' = Append(heap, BenchmarkMetric_init(BenchmarkMetric, name, lower_is_better,
                                                 observe_noise_sd, outcome_index))
    /\ last' = [op |-> "BenchmarkMetric", ret |-> Len(heap) + 1]
    /\ gt_calls' = <<>>
    /\ UNCHANGED registries

\* a caller builds GroundTruthBenchmarkMetric(original_metric=o)
NewGroundTruthBenchmarkMetric(o) ==
    /\ Len(heap) < MaxObjects
    /\ heap' = Append(heap, GroundTruthBenchmarkMetric_init(heap, o))
    /\ last' = [op |-> "GroundTruthBenchmarkMetric", self |-> o, ret |-> Len(heap) + 1]
    /\ gt_calls' = <<>>
    /\ UNCHANGED registries

\* a caller evaluates o.make_ground_truth_metric()
MakeGroundTruthMetric(o) ==
    LET r == make_ground_truth_metric(heap, o) IN
    /\ Len(r.heap) <= MaxObjects
    /\ heap' = r.heap
    /\ last' = [op |-> "make_ground_truth_metric", self |-> o, ret |-> r.ret,
                allocated |-> Len(r.heap) - Len(heap)]
    /\ gt_calls' = Recent(Append(gt_calls, [self |-> o, ret |-> r.ret]))
    /\ UNCHANGED registries

\* a caller evaluates o.fetch_trial_data(trial, **kwargs); the bridge, if it is
\* reached, answers with `result`
FetchTrialData(o, trial, kwargs, result) ==
    LET r == fetch_trial_data(heap, o, trial, kwargs, result) IN
    /\ UNCHANGED heap
    /\ last' = [op |-> "fetch_trial_data", self |-> o, trial |-> trial, kwargs |-> kwargs,
                raised |-> r.raised, bridge |-> r.bridge, ret |-> r.ret]
    /\ gt_calls' = <<>>
    /\ UNCHANGED registries

\* the metric o is persisted: the encoder dispatch runs on type(o)
EncodeMetric(o) ==
    LET r == encode_object(encoder_registry, class_encoder_registry, heap[o].cls) IN
    /\ last' = [op |-> "encode", kind |-> "instance", self |-> o, type |-> heap[o].cls,
                raised |-> r.raised, encoder |-> r.encoder, key |-> r.key, tag |-> r.tag]
    /\ gt_calls' = <<>>
    /\ UNCHANGED registries
    /\ UNCHANGED heap

\* an instance of cls is encoded
EncodeObject(cls) ==
    LET r == encode_object(encoder_registry, class_encoder_registry, cls) IN
    /\ last' = [op |-> "encode", kind |-> "instance", self |-> 0, type |-> cls,
                raised |-> r.raised, encoder |-> r.encoder, key |-> r.key, tag |-> r.tag]
    /\ gt_calls' = <<>>
    /\ UNCHANGED registries
    /\ UNCHANGED heap

\* the class cls itself (a type reference) is encoded
EncodeClass(cls) ==
    LET r == encode_class(class_encoder_registry, cls) IN
    /\ last' = [op |-> "encode", kind |-> "class", self |-> 0, type |-> cls,
                raised |-> r.raised, encoder |-> r.encoder, key |-> r.key, tag |-> r.tag]
    /\ gt_calls' = <<>>
    /\ UNCHANGED registries
    /\ UNCHANGED heap

\* a document whose discriminant is type_name is decoded
DecodeDocument(type_name) ==
    LET r == decode_document(decoder_registry, class_decoder_registry, type_name) IN
    /\ last' = [op |-> "decode", type_name |-> type_name,
                raised |-> r.raised, target |-> r.target]
    /\ gt_calls' = <<>>
    /\ UNCHANGED registries
    /\ UNCHANGED heap

Next ==
    \/ \E name \in Names, lower_is_better \in BOOLEAN, observe_noise_sd \in BOOLEAN,
          outcome_index \in OutcomeIndices :
            NewBenchmarkMetric(name, lower_is_better, observe_noise_sd, outcome_index)
    \/ \E o \in DOMAIN heap : NewGroundTruthBenchmarkMetric(o)
    \/ \E o \in DOMAIN heap : MakeGroundTruthMetric(o)
    \/ \E o \in DOMAIN heap, trial \in Trials, kwargs \in KwargSets, result \in FetchResults :
            FetchTrialData(o, trial, kwargs, result)
    \/ \E o \in DOMAIN heap : EncodeMetric(o)

Spec == Init /\ [][Next]_vars

\* the serialization layer on its own: the manifest and the two dispatchers
RegistryNext ==
    \/ \E cls \in AllTypes : EncodeObject(cls)
    \/ \E cls \in AllTypes : EncodeClass(cls)
    \/ \E type_name \in Discriminants : DecodeDocument(type_name)

RegistrySpec == Init /\ [][RegistryNext]_vars

-----------------------------------------------------------------------------
(* Properties of the BenchmarkMetric family, stated for Spec.              *)

IsObserved(o) == heap[o].cls = BenchmarkMetric

IsGroundTruth(o) == heap[o].cls = GroundTruthBenchmarkMetric

\* C1: make_ground_truth_metric() on a GroundTruthBenchmarkMetric g, after any
\* earlier calls, returns g itself and builds no new wrapper; no call ever
\* moves an existing object from one class (observed / ground truth) to the other.
C1_GroundTruthTerminal ==
    [][ /\ (last'.op = "make_ground_truth_metric" /\ IsGroundTruth(last'.self))
            => (last'.ret = last'.self /\ last'.allocated = 0 /\ heap' = heap)
        /\ \A o \in DOMAIN heap : o \in DOMAIN heap' /\ heap'[o].cls = heap[o].cls ]_vars

\* a ground-truth metric was asked twice in a row and answered itself
C1_Witness ==
    /\ last.op = "make_ground_truth_metric"
    /\ IsGroundTruth(last.self)
    /\ last.ret = last.self
    /\ Len(gt_calls) = 2
    /\ gt_calls[1].self = last.self

\* C2 (as stated): m.make_ground_truth_metric().make_ground_truth_metric(), the
\* two calls recorded in gt_calls, is the object that a further, separate call
\* m.make_ground_truth_metric() returns.
C2_SeparateCallsIdentical ==
    [][ (/\ last'.op = "make_ground_truth_metric"
         /\ Len(gt_calls) = HistoryLen
         /\ gt_calls[HistoryLen].self = gt_calls[HistoryLen - 1].ret
         /\ last'.self = gt_calls[HistoryLen - 1].self)
        => last'.ret = gt_calls[HistoryLen].ret ]_vars

\* C2 (amended): calling make_ground_truth_metric() on the object a call of
\* make_ground_truth_metric() has just returned gives that same object back;
\* a separate call m.make_ground_truth_metric() returns that object too when m
\* is a GroundTruthBenchmarkMetric, and a different, new object when m is an
\* observed BenchmarkMetric.
C2_IdempotentOnResult ==
    [][ /\ (/\ last'.op = "make_ground_truth_metric"
            /\ gt_calls # <<>>
            /\ last'.self = gt_calls[Len(gt_calls)].ret)
           => last'.ret = last'.self
        /\ (/\ last'.op = "make_ground_truth_metric"
            /\ Len(gt_calls) = HistoryLen
            /\ gt_calls[HistoryLen].self = gt_calls[HistoryLen - 1].ret
            /\ last'.self = gt_calls[HistoryLen - 1].self)
           => (last'.ret = gt_calls[HistoryLen].ret <=> IsGroundTruth(last'.self)) ]_vars

\* g.make_ground_truth_metric() answered g, for a wrapper g of the observed m,
\* and then a separate m.make_ground_truth_metric() answered another object
C2_Witness ==
    /\ Len(gt_calls) = 2
    /\ IsGroundTruth(gt_calls[1].self)
    /\ gt_calls[1].ret = gt_calls[1].self
    /\ gt_calls[2].self = heap[gt_calls[1].self].original_metric
    /\ IsObserved(gt_calls[2].self)
    /\ gt_calls[2].ret # gt_calls[1].ret

\* C3: every GroundTruthBenchmarkMetric has observe_noise_sd = False whatever
\* the setting of the metric it wraps, and each Fetch Bridge call it makes
\* passes include_noise_sd = False.
C3_GroundTruthNoNoiseSd ==
    /\ \A o \in DOMAIN heap : IsGroundTruth(o) => heap[o].observe_noise_sd = FALSE
    /\ (last.op = "fetch_trial_data" /\ IsGroundTruth(last.self))
        => \A i \in DOMAIN last.bridge : last.bridge[i].include_noise_sd = FALSE

\* a wrapper of a metric that observes the noise sd has fetched through the bridge
C3_Witness ==
    /\ last.op = "fetch_trial_data"
    /\ IsGroundTruth(last.self)
    /\ Len(last.bridge) = 1
    /\ heap[heap[last.self].original_metric].observe_noise_sd = TRUE

C5_DelegatesToBridge ==
    (last.op = "fetch_trial_data" /\ last.kwargs = {})
        => /\ last.raised = ""
           /\ Len(last.bridge) = 1
           /\ last.bridge[1].trial = last.trial
           /\ last.bridge[1].metric_name = heap[last.self].name
           /\ last.bridge[1].outcome_index = heap[last.self].outcome_index
           /\ last.bridge[1].include_noise_sd = heap[last.self].observe_noise_sd
           /\ last.bridge[1].ground_truth = IsGroundTruth(last.self)
           /\ last.ret = last.bridge[1].result

\* a ground-truth metric with an outcome_index fetched and the bridge failed
C5_Witness ==
    /\ last.op = "fetch_trial_data"
    /\ last.kwargs = {}
    /\ IsGroundTruth(last.self)
    /\ heap[last.self].outcome_index = Some(0)
    /\ last.ret = "Err"

\* C10: make_ground_truth_metric() on an observed BenchmarkMetric m returns a
\* new GroundTruthBenchmarkMetric g, distinct from m, whose original_metric is
\* m and whose lower_is_better and outcome_index are those of m at the call;
\* m's own attributes are unchanged.
C10_NewWrapper ==
    [][ (last'.op = "make_ground_truth_metric" /\ IsObserved(last'.self))
        => /\ last'.ret \notin DOMAIN heap
           /\ last'.ret \in DOMAIN heap'
           /\ last'.ret # last'.self
           /\ heap'[last'.ret].cls = GroundTruthBenchmarkMetric
           /\ heap'[last'.ret].original_metric = last'.self
           /\ heap'[last'.ret].lower_is_better = heap[last'.self].lower_is_better
           /\ heap'[last'.ret].outcome_index = heap[last'.self].outcome_index
           /\ heap'[last'.self] = heap[last'.self] ]_vars

\* the same observed metric was asked twice and answered two different wrappers
C10_Witness ==
    /\ Len(gt_calls) = 2
    /\ IsObserved(gt_calls[1].self)
    /\ gt_calls[2].self = gt_calls[1].self
    /\ gt_calls[2].ret # gt_calls[1].ret
    /\ heap[gt_calls[1].self].lower_is_better = TRUE
    /\ heap[gt_calls[1].self].outcome_index = Some(0)

\* C8: a BenchmarkMetric and a GroundTruthBenchmarkMetric made from it both
\* resolve to an encoder under the dispatch rule, and to the same one.
C8_SameEncoderPath ==
    (last.op = "encode" /\ last.self # 0)
        => /\ last.raised = ""
           /\ IsGroundTruth(last.self)
                => last.encoder =
                     encode_object(encoder_registry, class_encoder_registry,
                                   heap[heap[last.self].original_metric].cls).encoder

-----------------------------------------------------------------------------
(* Properties of the registry manifest, stated for RegistrySpec.          *)

\* C6: walking the ancestor registry in its declared order, no key comes after
\* one of its own strict superclasses, so the first key that is a base of a
\* class is its most specific registered base.
C6_MostSpecificFirst ==
    (last.op = "encode" /\ last.kind = "class" /\ last.raised = "")
        => /\ \A i, j \in Matches(class_encoder_registry, last.type) :
                 i < j => class_encoder_registry[i][1]
                            \notin StrictAncestors(class_encoder_registry[j][1])
           /\ \A i \in Matches(class_encoder_registry, last.type) :
                 ~ (/\ class_encoder_registry[i][1] # last.key
                    /\ issubclass(class_encoder_registry[i][1], last.key))

\* C7: no type is a key of both the exact-type and the ancestor encoder registry.
C7_DisjointKeys ==
    Keys(encoder_registry) \cap Keys(class_encoder_registry) = {}

\* an instance whose type has an exact entry and also a registered base was
\* encoded through its exact entry
C7_Witness ==
    /\ last.op = "encode"
    /\ last.kind = "instance"
    /\ last.raised = ""
    /\ last.key = last.type
    /\ last.type \in Keys(encoder_registry)
    /\ Matches(class_encoder_registry, last.type) # {}

\* discriminants the encoders emit for registered types and class references
Emitted ==
    {encode_object(encoder_registry, class_encoder_registry, cls).tag :
        cls \in Keys(encoder_registry)}
    \cup {encode_class(class_encoder_registry, cls).tag :
            cls \in {c \in AllTypes : Matches(class_encoder_registry, c) # {}}}

\* C9: every key T of the encoder registry has the decoder entry
\* (T's class name -> T), every key B of the ancestor encoder registry has a
\* class-decoder entry "Type[<B's class name>]", and decoding a discriminant
\* emitted for a registered type never raises UnknownTypeNameError.
C9_DecodersCoverEncoders ==
    /\ \A i \in DOMAIN encoder_registry :
          \E j \in DOMAIN decoder_registry :
             decoder_registry[j] = <<ClassName(encoder_registry[i][1]), encoder_registry[i][1]>>
    /\ \A i \in DOMAIN class_encoder_registry :
          TypeTag(ClassName(class_encoder_registry[i][1])) \in Keys(class_decoder_registry)
    /\ (last.op = "decode" /\ last.type_name \in Emitted) => last.raised = ""

\* the discriminant of a class reference routed through the last ancestor key
\* was decoded by the class-decoder table
C9_Witness ==
    /\ last.op = "decode"
    /\ last.type_name = "Type[Transform]"
    /\ last.raised = ""
    /\ last.target = "transform_type_from_json"

====
